---- MODULE Spec2Model ----
(***************************************************************************)
(* WhatsApp -> Spotify playlist sync (scripts/spotify.py).                 *)
(*                                                                         *)
(* One run of process_spotify_from_drive is modelled step by step: the     *)
(* Drive / Spotify set-up checks, link extraction and resolution, the      *)
(* paginated playlist read, the chronological (destructive) sync or the    *)
(* add-only path, the batched remove / add requests and the final summary. *)
(* The remote playlist is a sequence of entries held by the Spotify API;   *)
(* every remote call may fail (an exception of the client library).        *)
(***************************************************************************)
EXTENDS Integers, Sequences, FiniteSets, TLC

\* ------------------------------------------------------------------ bounds
NumTracks == 2          \* distinct track identifiers in the model
MaxRemote == 3          \* length of the remote playlist before the first run
MaxLinks  == 3          \* links found in the chat export
MaxRuns   == 2          \* runs of process_spotify_from_drive in a behaviour
ChunkSize == 2          \* the API limit of 100 items per request, scaled down
MaxLines  == 2          \* lines of the chat text
MaxLineLinks == 2       \* links written on one line
NumAppleUrls == 1       \* distinct Apple Music urls
MaxNameLen == 2         \* characters of a track title
MaxArtists == 1         \* artists of a search result
DetailsChunkSize == 2   \* the 50 ids per tracks request, scaled down

Tracks  == 1..NumTracks
NoTrack == 0            \* playlist entry whose track is null / not a track uri
Abstain == 0            \* link on which the resolver gives no identifier
None    == -1           \* Python None for divergence_index

VARIABLES
    remote,                                \* the playlist held by Spotify
    chat,                                  \* per link of the chat: its resolution
    ENABLE_DESTRUCTIVE_SYNC,               \* module constant read from the environment
    SUCCESSFULLY_ADDED_SONG_URIS_THIS_RUN, \* module-level list
    pc,                                    \* position in process_spotify_from_drive
    sp,                                    \* Spotify client available (truthy)
    ordered_track_uris_from_chat,
    existing_uris,
    offset,
    divergence_index,
    songs_to_remove,
    songs_to_add,
    to_add,                                \* add-only mode
    valid_uris_to_add,
    i,                                     \* start index of the next chunk
    final_log_message,
    sync_invoked,                          \* inside sync_playlist_chronologically
    \* ---- observations of the run (not read by the program)
    runs,
    remote_at_start,
    read_failed,
    sync_returned,
    in_sync_logged,
    remove_requests,
    add_requests,
    add_returned,
    prev_all_ok,
    emitted,                               \* messages of the run, in order
    blocking_reason,                       \* first blocking condition of the run
    \* ---- link extraction and resolution, step by step
    text_content,
    line_number,
    all_links,
    seen_urls,
    outcomes,
    \* ---- search_spotify_for_apple_music_track
    track_name,
    artist_name,
    best_match,
    search_outcome,
    spotify_uri,
    \* ---- get_track_details_for_logging
    track_details_list,
    lookups                                \* per uri: what the lookup gave

vars == << remote, chat, ENABLE_DESTRUCTIVE_SYNC,
           SUCCESSFULLY_ADDED_SONG_URIS_THIS_RUN, pc, sp,
           ordered_track_uris_from_chat, existing_uris, offset,
           divergence_index, songs_to_remove, songs_to_add, to_add,
           valid_uris_to_add, i, final_log_message, sync_invoked,
           runs, remote_at_start, read_failed, sync_returned, in_sync_logged, remove_requests,
           add_requests, add_returned, prev_all_ok, emitted,
           blocking_reason, text_content, line_number, all_links,
           seen_urls, outcomes, track_name, artist_name, best_match,
           search_outcome, spotify_uri, track_details_list, lookups >>

\* --------------------------------------------------------------- helpers
Min(a, b) == IF a < b THEN a ELSE b

Range(s) == { s[k] : k \in 1..Len(s) }

SeqsUpTo(S, n) == UNION { [1..k -> S] : k \in 0..n }

\* Python s[a:b] for 0 <= a
Slice(s, a, b) == SubSeq(s, a + 1, Min(b, Len(s)))

\* Python s[a:]
SliceFrom(s, a) == SubSeq(s, a + 1, Len(s))

RECURSIVE Flatten(_)
Flatten(ss) == IF ss = << >> THEN << >> ELSE Head(ss) \o Flatten(Tail(ss))

\* ------------------------------------------------------- Spotify Web API
\* playlist_items(offset, limit): one page and whether a next page exists
PageItems(pl, off, limit) == Slice(pl, off, off + limit)
PageHasNext(pl, off, limit) == off + limit < Len(pl)

\* playlist_remove_all_occurrences_of_items: removal by value
RemoveAllOccurrences(pl, chunk) == SelectSeq(pl, LAMBDA e : e \notin Range(chunk))

\* variant: the items are inserted at position 0
AppendItems_AtFront(pl, chunk) == chunk \o pl

\* playlist_add_items: append at the end, in order
AppendItems(pl, chunk) == pl \o chunk

\* ------------------------------------------------ functions of the script
\* variant: every item of a page is kept
IsTrackItem_Always(e) == TRUE

\* get_existing_playlist_track_uris_in_order, the per-item filter
IsTrackItem(e) == e # NoTrack
KeepTrackItems(items) == SelectSeq(items, IsTrackItem)

\* the resolution loop of process_spotify_from_drive: links that resolve
\* contribute their identifier, in order; the others contribute nothing
ResolveLinks(link_results) == SelectSeq(link_results, LAMBDA l : l # Abstain)

\* variant: the empty-target guard is missing
NoUrisDerived_Never(uris) == FALSE

\* guard `if not ordered_track_uris_from_chat`
NoUrisDerived(uris) == uris = << >>

\* variant: the comparison of the loop is inverted
FirstMismatch_Inverted(chat_uris, existing) ==
    LET overlap == Min(Len(chat_uris), Len(existing))
        same    == { k \in 1..overlap : chat_uris[k] = existing[k] }
    IN  IF same = {} THEN None
        ELSE (CHOOSE k \in same : \A m \in same : k <= m) - 1

\* variant: enumerate counts from 1
FirstMismatch_OneBased(chat_uris, existing) ==
    LET overlap == Min(Len(chat_uris), Len(existing))
        diff    == { k \in 1..overlap : chat_uris[k] # existing[k] }
    IN  IF diff = {} THEN None
        ELSE CHOOSE k \in diff : \A m \in diff : k <= m

\* sync_playlist_chronologically: the zip/enumerate loop
FirstMismatch(chat_uris, existing) ==
    LET overlap == Min(Len(chat_uris), Len(existing))
        diff    == { k \in 1..overlap : chat_uris[k] # existing[k] }
    IN  IF diff = {} THEN None
        ELSE (CHOOSE k \in diff : \A m \in diff : k <= m) - 1

\* `if divergence_index is None` and equal lengths: already in sync
AlreadyInSync(chat_uris, existing) ==
    /\ FirstMismatch(chat_uris, existing) = None
    /\ Len(chat_uris) = Len(existing)

\* divergence_index once the in-sync case is excluded
DivergenceIndex(chat_uris, existing) ==
    IF FirstMismatch(chat_uris, existing) = None
    THEN Len(existing)
    ELSE FirstMismatch(chat_uris, existing)

\* variant: the remove slice starts one past the divergence index
SongsToRemove_OffByOne(existing, d) == SliceFrom(existing, d + 1)

\* songs_to_remove = existing_uris[divergence_index:]
SongsToRemove(existing, d) == SliceFrom(existing, d)

\* variant: the add slice starts one past the divergence index
SongsToAdd_OffByOne(chat_uris, d) == SliceFrom(chat_uris, d + 1)

\* songs_to_add = ordered_track_uris_from_chat[divergence_index:]
SongsToAdd(chat_uris, d)   == SliceFrom(chat_uris, d)

\* add-only mode: to_add = [uri for uri in chat if uri not in existing]
ToAdd(chat_uris, existing) ==
    SelectSeq(chat_uris, LAMBDA u : u \notin Range(existing))

\* add_tracks_to_playlist: validation of the uris before sending
IsValidTrackUri(u) == u \in Tracks
ValidUrisToAdd(uris) == SelectSeq(uris, IsValidTrackUri)

\* variant: the slice takes one item too many
Chunk_OneTooMany(uris, start) == Slice(uris, start, start + ChunkSize + 1)

\* chunk = uris[i:i + 100]
Chunk(uris, start) == Slice(uris, start, start + ChunkSize)

\* variant: the flag is ignored and the destructive sync always runs
RunsDestructiveSync_Always(flag) == TRUE

\* mode dispatch at step 7
RunsDestructiveSync(flag) == flag

\* variant: a failed remove request is logged and the loop goes on
RemoveLoopContinues_Always(ok) == TRUE

\* remove_tracks_from_playlist_in_batches has no handler of its own: the
\* loop reaches the next batch only when the request did not raise
RemoveLoopContinues(ok) == ok

\* ------------------------------------------------------------------ Init
searchVars == << track_name, artist_name, best_match, search_outcome, spotify_uri >>

\* no search is in progress
NoName == << "None" >>     \* Python None where a str is expected

NoSearch ==
    /\ track_name = NoName
    /\ artist_name = NoName
    /\ best_match = [kind |-> "none"]
    /\ search_outcome = "none"
    /\ spotify_uri = None

detailVars == << track_details_list, lookups >>

\* no lookup of track details is in progress
NoDetails ==
    /\ track_details_list = << >>
    /\ lookups = << >>

Msg(reason, count) == [reason |-> reason, count |-> count]

\* log_message: console and log file
LogMessage(kind, msg) ==
    [kind |-> kind, reason |-> msg.reason, count |-> msg.count, file |-> TRUE]

\* variant: the fixed line is passed to log_message as well
PrintOnly_ToFile(kind, msg) ==
    [kind |-> kind, reason |-> msg.reason, count |-> msg.count, file |-> TRUE]

\* print: console only
PrintOnly(kind, msg) ==
    [kind |-> kind, reason |-> msg.reason, count |-> msg.count, file |-> FALSE]

Diag(reason) == LogMessage("diag", Msg(reason, 0))

Init ==
    /\ remote \in SeqsUpTo(Tracks \cup {NoTrack}, MaxRemote)
    /\ chat \in SeqsUpTo(Tracks \cup {Abstain}, MaxLinks)
    /\ ENABLE_DESTRUCTIVE_SYNC \in BOOLEAN
    /\ SUCCESSFULLY_ADDED_SONG_URIS_THIS_RUN = << >>
    /\ pc = "drive_auth"
    /\ sp = FALSE
    /\ ordered_track_uris_from_chat = << >>
    /\ existing_uris = << >>
    /\ offset = 0
    /\ divergence_index = None
    /\ songs_to_remove = << >>
    /\ songs_to_add = << >>
    /\ to_add = << >>
    /\ valid_uris_to_add = << >>
    /\ i = 0
    /\ final_log_message = Msg("BeforeStart", 0)
    /\ runs = 1
    /\ remote_at_start = remote
    /\ read_failed = FALSE
    /\ sync_invoked = FALSE
    /\ sync_returned = "none"
    /\ in_sync_logged = FALSE
    /\ remove_requests = << >>
    /\ add_requests = << >>
    /\ add_returned = None
    /\ prev_all_ok = FALSE
    /\ emitted = << >>
    /\ blocking_reason = "none"
    /\ text_content = << >>
    /\ line_number = 0
    /\ all_links = << >>
    /\ seen_urls = {}
    /\ outcomes = << >>
    /\ NoSearch
    /\ NoDetails

\* groups of variables for UNCHANGED
inputVars == << chat, ENABLE_DESTRUCTIVE_SYNC >>
readVars  == << existing_uris, offset >>
diffVars  == << divergence_index, songs_to_remove, songs_to_add, to_add >>
runVars   == << runs, remote_at_start, prev_all_ok >>
reqVars   == << remove_requests, add_requests, add_returned >>
linkVars  == << text_content, line_number, all_links, seen_urls, outcomes,
                track_name, artist_name, best_match, search_outcome,
                spotify_uri, track_details_list, lookups >>

\* ------------------------------------------- process_spotify_from_drive
\* Step 1: load_google_drive_service; on failure the function returns
\* right after logging, without reaching the final summary section.
LoadDrive ==
    /\ pc = "drive_auth"
    /\ \E ok \in BOOLEAN :
         IF ok
         THEN /\ pc' = "folder_id"
              /\ UNCHANGED << final_log_message, emitted, blocking_reason >>
         ELSE /\ pc' = "done"
              /\ final_log_message' = Msg("DriveAuthFailure", 0)
              /\ blocking_reason' = "DriveAuthFailure"
              /\ emitted' = emitted \o
                    << Diag("DriveAuthError"),
                       LogMessage("summary", Msg("DriveAuthFailure", 0)) >>
    /\ UNCHANGED << remote, inputVars, SUCCESSFULLY_ADDED_SONG_URIS_THIS_RUN,
                    sp, ordered_track_uris_from_chat, readVars, diffVars,
                    valid_uris_to_add, i, sync_invoked, runVars, read_failed,
                    sync_returned, in_sync_logged, reqVars, linkVars >>

\* GOOGLE_DRIVE_INPUT_FOLDER_ID missing: log and return
CheckFolderId ==
    /\ pc = "folder_id"
    /\ \E present \in BOOLEAN :
         IF present
         THEN /\ pc' = "archive"
              /\ UNCHANGED << final_log_message, emitted, blocking_reason >>
         ELSE /\ pc' = "done"
              /\ final_log_message' = Msg("MissingFolderId", 0)
              /\ blocking_reason' = "MissingFolderId"
              /\ emitted' = Append(emitted,
                    LogMessage("summary", Msg("MissingFolderId", 0)))
    /\ UNCHANGED << remote, inputVars, SUCCESSFULLY_ADDED_SONG_URIS_THIS_RUN,
                    sp, ordered_track_uris_from_chat, readVars, diffVars,
                    valid_uris_to_add, i, sync_invoked, runVars, read_failed,
                    sync_returned, in_sync_logged, reqVars, linkVars >>

\* Step 2: get_target_archive_file (None when no file matches, and, after
\* logging, when the Drive request raises)
FindArchive ==
    /\ pc = "archive"
    /\ \E result \in {"found", "none", "error"} :
         IF result = "found"
         THEN /\ pc' = "download"
              /\ UNCHANGED << final_log_message, emitted, blocking_reason >>
         ELSE /\ pc' = "summary"
              /\ final_log_message' = Msg("ArchiveNotFound", 0)
              /\ blocking_reason' = "ArchiveNotFound"
              /\ emitted' = IF result = "error"
                            THEN Append(emitted, Diag("ArchiveLookupError"))
                            ELSE emitted
    /\ UNCHANGED << remote, inputVars, SUCCESSFULLY_ADDED_SONG_URIS_THIS_RUN,
                    sp, ordered_track_uris_from_chat, readVars, diffVars,
                    valid_uris_to_add, i, sync_invoked, runVars, read_failed,
                    sync_returned, in_sync_logged, reqVars, linkVars >>

\* Step 3: download_and_extract_chat_from_archive (None when the archive
\* holds no chat file, and, after logging, when the download raises)
DownloadChat ==
    /\ pc = "download"
    /\ \E result \in {"text", "none", "error"} :
         IF result = "text"
         THEN /\ pc' = "spotify_auth"
              /\ UNCHANGED << final_log_message, emitted, blocking_reason >>
         ELSE /\ pc' = "summary"
              /\ final_log_message' = Msg("ExtractFailed", 0)
              /\ blocking_reason' = "ExtractFailed"
              /\ emitted' = IF result = "error"
                            THEN Append(emitted, Diag("DownloadError"))
                            ELSE emitted
    /\ UNCHANGED << remote, inputVars, SUCCESSFULLY_ADDED_SONG_URIS_THIS_RUN,
                    sp, ordered_track_uris_from_chat, readVars, diffVars,
                    valid_uris_to_add, i, sync_invoked, runVars, read_failed,
                    sync_returned, in_sync_logged, reqVars, linkVars >>

\* Step 4: load_spotify_client (logs on both of its failure paths)
SpotifyAuth ==
    /\ pc = "spotify_auth"
    /\ \E ok \in BOOLEAN :
         IF ok
         THEN /\ pc' = "playlist_id"
              /\ sp' = TRUE
              /\ UNCHANGED << final_log_message, emitted, blocking_reason >>
         ELSE /\ pc' = "summary"
              /\ sp' = FALSE
              /\ final_log_message' = Msg("SpotifyAuthFailure", 0)
              /\ blocking_reason' = "SpotifyAuthFailure"
              /\ emitted' = Append(emitted, Diag("SpotifyAuthError"))
    /\ UNCHANGED << remote, inputVars, SUCCESSFULLY_ADDED_SONG_URIS_THIS_RUN,
                    ordered_track_uris_from_chat, readVars, diffVars,
                    valid_uris_to_add, i, sync_invoked, runVars, read_failed,
                    sync_returned, in_sync_logged, reqVars, linkVars >>

\* TARGET_PLAYLIST_ID
CheckPlaylistId ==
    /\ pc = "playlist_id"
    /\ \E present \in BOOLEAN :
         IF present
         THEN /\ pc' = "extract"
              /\ UNCHANGED << final_log_message, blocking_reason >>
         ELSE /\ pc' = "summary"
              /\ final_log_message' = Msg("MissingPlaylistId", 0)
              /\ blocking_reason' = "MissingPlaylistId"
    /\ UNCHANGED << remote, inputVars, SUCCESSFULLY_ADDED_SONG_URIS_THIS_RUN,
                    sp, ordered_track_uris_from_chat, readVars, diffVars,
                    valid_uris_to_add, i, sync_invoked, runVars, read_failed,
                    sync_returned, in_sync_logged, reqVars, emitted, linkVars >>

\* Steps 5-7: extract the links, resolve each in order, then either stop
\* (no links / no uris) or enter the sync step of the configured mode.
\* Every link that does not resolve is logged.
\* sync_playlist_chronologically clears the module-level list on entry.
ExtractAndResolve ==
    /\ pc = "extract"
    /\ LET links  == chat
           uris   == ResolveLinks(links)
           failed == SelectSeq(links, LAMBDA l : l = Abstain)
       IN  IF links = << >>
           THEN /\ pc' = "summary"
                /\ final_log_message' = Msg("NoLinks", 0)
                /\ blocking_reason' = "NoLinks"
                /\ UNCHANGED << ordered_track_uris_from_chat, sync_invoked,
                                SUCCESSFULLY_ADDED_SONG_URIS_THIS_RUN, emitted >>
           ELSE /\ ordered_track_uris_from_chat' = uris
                /\ emitted' = emitted \o
                      [k \in 1..Len(failed) |-> Diag("LinkNotResolved")]
                /\ IF NoUrisDerived(uris)
                   THEN /\ pc' = "summary"
                        /\ final_log_message' = Msg("NoValidUris", 0)
                        /\ blocking_reason' = "NoValidUris"
                        /\ UNCHANGED << sync_invoked,
                                        SUCCESSFULLY_ADDED_SONG_URIS_THIS_RUN >>
                   ELSE /\ pc' = "read"
                        /\ UNCHANGED << final_log_message, blocking_reason >>
                        /\ IF RunsDestructiveSync(ENABLE_DESTRUCTIVE_SYNC)
                           THEN /\ sync_invoked' = TRUE
                                /\ SUCCESSFULLY_ADDED_SONG_URIS_THIS_RUN' = << >>
                           ELSE UNCHANGED << sync_invoked,
                                            SUCCESSFULLY_ADDED_SONG_URIS_THIS_RUN >>
    /\ UNCHANGED << remote, inputVars, sp, readVars, diffVars,
                    valid_uris_to_add, i, runVars, read_failed,
                    sync_returned, in_sync_logged, reqVars, linkVars >>

\* ------------------------- get_existing_playlist_track_uris_in_order
\* One iteration of the `while True` loop: one playlist_items request.
\* It returns to sync_playlist_chronologically or to the add-only branch.
AfterRead == IF sync_invoked THEN "diff" ELSE "filter"

ReadPage ==
    /\ pc = "read"
    /\ \E ok \in BOOLEAN :
         IF ~ok
         THEN \* except: log and return what was fetched so far
              /\ read_failed' = TRUE
              /\ emitted' = Append(emitted, Diag("ReadError"))
              /\ pc' = AfterRead
              /\ UNCHANGED readVars
         ELSE LET items == PageItems(remote, offset, ChunkSize)
              IN  /\ UNCHANGED << read_failed, emitted >>
                  /\ IF items = << >>
                     THEN /\ pc' = AfterRead
                          /\ UNCHANGED readVars
                     ELSE /\ existing_uris' = existing_uris \o KeepTrackItems(items)
                          /\ IF PageHasNext(remote, offset, ChunkSize)
                             THEN /\ offset' = offset + ChunkSize
                                  /\ pc' = "read"
                             ELSE /\ pc' = AfterRead
                                  /\ UNCHANGED offset
    /\ UNCHANGED << remote, inputVars, SUCCESSFULLY_ADDED_SONG_URIS_THIS_RUN,
                    sp, ordered_track_uris_from_chat, diffVars,
                    valid_uris_to_add, i, final_log_message, sync_invoked,
                    runVars, sync_returned, in_sync_logged, reqVars,
                    blocking_reason, linkVars >>

\* ------------------------------------- sync_playlist_chronologically
\* From the divergence search to the choice of what to remove and add.
SyncDiff ==
    /\ pc = "diff"
    /\ IF AlreadyInSync(ordered_track_uris_from_chat, existing_uris)
       THEN /\ in_sync_logged' = TRUE
            /\ emitted' = Append(emitted, Diag("InSync"))
            /\ blocking_reason' = "AlreadyInSync"
            /\ sync_returned' = "True"
            /\ pc' = "summary"
            /\ UNCHANGED diffVars
       ELSE LET d   == DivergenceIndex(ordered_track_uris_from_chat, existing_uris)
                rem == SongsToRemove(existing_uris, d)
                add == SongsToAdd(ordered_track_uris_from_chat, d)
            IN  /\ divergence_index' = d
                /\ songs_to_remove' = rem
                /\ songs_to_add' = add
                /\ UNCHANGED << to_add, in_sync_logged, emitted, blocking_reason >>
                /\ IF rem # << >>
                   THEN /\ pc' = "remove"
                        /\ UNCHANGED sync_returned
                   ELSE IF add # << >>
                   THEN /\ pc' = "add_call"
                        /\ UNCHANGED sync_returned
                   ELSE /\ pc' = "summary"
                        /\ sync_returned' = "True"
    /\ UNCHANGED << remote, inputVars, SUCCESSFULLY_ADDED_SONG_URIS_THIS_RUN,
                    sp, ordered_track_uris_from_chat, readVars,
                    valid_uris_to_add, i, final_log_message, sync_invoked,
                    runVars, read_failed, reqVars, linkVars >>

\* remove_tracks_from_playlist_in_batches: one iteration of the loop.
\* A failing request raises; sync_playlist_chronologically catches it,
\* logs and returns False.
RemoveChunk ==
    /\ pc = "remove"
    /\ \E ok \in BOOLEAN :
         LET chunk == Chunk(songs_to_remove, i)
         IN  /\ remove_requests' = Append(remove_requests, [chunk |-> chunk, ok |-> ok])
             /\ remote' = IF ok THEN RemoveAllOccurrences(remote, chunk) ELSE remote
             /\ emitted' = IF ok THEN emitted
                           ELSE Append(emitted, Diag("RemoveError"))
             /\ IF RemoveLoopContinues(ok)
                THEN IF i + ChunkSize < Len(songs_to_remove)
                     THEN /\ i' = i + ChunkSize
                          /\ pc' = "remove"
                          /\ UNCHANGED sync_returned
                     ELSE /\ i' = 0
                          /\ IF songs_to_add # << >>
                             THEN /\ pc' = "add_call"
                                  /\ UNCHANGED sync_returned
                             ELSE /\ pc' = "summary"
                                  /\ sync_returned' = "True"
                ELSE /\ pc' = "summary"
                     /\ sync_returned' = "False"
                     /\ i' = 0
    /\ UNCHANGED << inputVars, SUCCESSFULLY_ADDED_SONG_URIS_THIS_RUN, sp,
                    ordered_track_uris_from_chat, readVars, diffVars,
                    valid_uris_to_add, final_log_message, sync_invoked,
                    runVars, read_failed, in_sync_logged, add_requests,
                    add_returned, blocking_reason, linkVars >>

\* ------------------------------------------------- add-only branch
AddOnlyFilter ==
    /\ pc = "filter"
    /\ LET missing == ToAdd(ordered_track_uris_from_chat, existing_uris)
       IN  /\ to_add' = missing
           /\ IF missing # << >>
              THEN /\ pc' = "add_call"
                   /\ UNCHANGED << final_log_message, blocking_reason >>
              ELSE /\ pc' = "summary"
                   /\ final_log_message' = Msg("AllAlreadyPresent", 0)
                   /\ blocking_reason' = "AllAlreadyPresent"
    /\ UNCHANGED << remote, inputVars, SUCCESSFULLY_ADDED_SONG_URIS_THIS_RUN,
                    sp, ordered_track_uris_from_chat, readVars,
                    divergence_index, songs_to_remove, songs_to_add,
                    valid_uris_to_add, i, sync_invoked, runVars, read_failed,
                    sync_returned, in_sync_logged, reqVars, emitted, linkVars >>

\* ------------------------------------------- add_tracks_to_playlist
\* Entry: the early returns and the validation of the uris.
AddCall ==
    /\ pc = "add_call"
    /\ LET track_uris_to_add == IF sync_invoked THEN songs_to_add ELSE to_add
           valid == ValidUrisToAdd(track_uris_to_add)
       IN  /\ valid_uris_to_add' = valid
           /\ i' = 0
           /\ IF valid = << >>
              THEN /\ add_returned' = 0
                   /\ pc' = "summary"
                   /\ sync_returned' = IF sync_invoked THEN "True" ELSE sync_returned
              ELSE /\ pc' = "add_chunk"
                   /\ UNCHANGED << add_returned, sync_returned >>
    /\ UNCHANGED << remote, inputVars, SUCCESSFULLY_ADDED_SONG_URIS_THIS_RUN,
                    sp, ordered_track_uris_from_chat, readVars, diffVars,
                    final_log_message, sync_invoked, runVars, read_failed,
                    in_sync_logged, remove_requests, add_requests, emitted,
                    blocking_reason, linkVars >>

\* One iteration of the chunk loop: a failing request is logged and the
\* loop goes on; after the last chunk the length of the module-level list
\* is returned (sync_playlist_chronologically then returns True).
AddChunk ==
    /\ pc = "add_chunk"
    /\ \E ok \in BOOLEAN :
         LET chunk == Chunk(valid_uris_to_add, i)
             added == IF ok
                      THEN SUCCESSFULLY_ADDED_SONG_URIS_THIS_RUN \o chunk
                      ELSE SUCCESSFULLY_ADDED_SONG_URIS_THIS_RUN
         IN  /\ add_requests' = Append(add_requests, [chunk |-> chunk, ok |-> ok])
             /\ remote' = IF ok THEN AppendItems(remote, chunk) ELSE remote
             /\ SUCCESSFULLY_ADDED_SONG_URIS_THIS_RUN' = added
             /\ emitted' = IF ok THEN emitted
                           ELSE Append(emitted, Diag("AddChunkError"))
             /\ IF i + ChunkSize < Len(valid_uris_to_add)
                THEN /\ i' = i + ChunkSize
                     /\ pc' = "add_chunk"
                     /\ UNCHANGED << add_returned, sync_returned >>
                ELSE /\ i' = 0
                     /\ add_returned' = Len(added)
                     /\ pc' = "summary"
                     /\ sync_returned' = IF sync_invoked THEN "True" ELSE sync_returned
    /\ UNCHANGED << inputVars, sp, ordered_track_uris_from_chat, readVars,
                    diffVars, valid_uris_to_add, final_log_message,
                    sync_invoked, runVars, read_failed, in_sync_logged,
                    remove_requests, blocking_reason, linkVars >>

\* ------------------------------------------ final run summary logging
\* With a non-empty module-level list the summary sentence is built and
\* passed to log_message; otherwise a fixed line is printed and
\* final_log_message is not used.
SummaryMessage(added, client) ==
    IF client THEN Msg("Added", Len(added)) ELSE Msg("AddedNoClient", Len(added))

Summary ==
    /\ pc = "summary"
    /\ pc' = "done"
    /\ IF SUCCESSFULLY_ADDED_SONG_URIS_THIS_RUN # << >>
       THEN LET m == SummaryMessage(SUCCESSFULLY_ADDED_SONG_URIS_THIS_RUN, sp)
            IN  /\ final_log_message' = m
                /\ emitted' = Append(emitted, LogMessage("summary", m))
       ELSE /\ UNCHANGED final_log_message
            /\ emitted' = Append(emitted,
                  PrintOnly("summary", Msg("NoNewSongsThisRun", 0)))
    /\ UNCHANGED << remote, inputVars, SUCCESSFULLY_ADDED_SONG_URIS_THIS_RUN,
                    sp, ordered_track_uris_from_chat, readVars, diffVars,
                    valid_uris_to_add, i, sync_invoked, runVars, read_failed,
                    sync_returned, in_sync_logged, reqVars, blocking_reason,
                    linkVars >>

\* -------------------------------------------------------- a further run
\* process_spotify_from_drive is called again, either in the same
\* interpreter (module-level list kept) or in a new process (module
\* re-imported).  Locals start afresh.
AllRequestsOk ==
    /\ \A k \in 1..Len(remove_requests) : remove_requests[k].ok
    /\ \A k \in 1..Len(add_requests) : add_requests[k].ok

RunAgain ==
    /\ pc = "done"
    /\ runs < MaxRuns
    /\ \E same_process \in BOOLEAN :
         SUCCESSFULLY_ADDED_SONG_URIS_THIS_RUN' =
             IF same_process THEN SUCCESSFULLY_ADDED_SONG_URIS_THIS_RUN ELSE << >>
    /\ runs' = runs + 1
    /\ remote_at_start' = remote
    /\ prev_all_ok' = (sync_invoked /\ sync_returned # "none" /\ ~read_failed /\ AllRequestsOk)
    /\ pc' = "drive_auth"
    /\ sp' = FALSE
    /\ ordered_track_uris_from_chat' = << >>
    /\ existing_uris' = << >>
    /\ offset' = 0
    /\ divergence_index' = None
    /\ songs_to_remove' = << >>
    /\ songs_to_add' = << >>
    /\ to_add' = << >>
    /\ valid_uris_to_add' = << >>
    /\ i' = 0
    /\ final_log_message' = Msg("BeforeStart", 0)
    /\ read_failed' = FALSE
    /\ sync_invoked' = FALSE
    /\ sync_returned' = "none"
    /\ in_sync_logged' = FALSE
    /\ remove_requests' = << >>
    /\ add_requests' = << >>
    /\ add_returned' = None
    /\ emitted' = << >>
    /\ blocking_reason' = "none"
    /\ UNCHANGED << remote, inputVars, linkVars >>

Next ==
    \/ LoadDrive
    \/ CheckFolderId
    \/ FindArchive
    \/ DownloadChat
    \/ SpotifyAuth
    \/ CheckPlaylistId
    \/ ExtractAndResolve
    \/ ReadPage
    \/ SyncDiff
    \/ RemoveChunk
    \/ AddOnlyFilter
    \/ AddCall
    \/ AddChunk
    \/ Summary
    \/ RunAgain

Spec == Init /\ [][Next]_vars

TypeOK ==
    /\ remote \in Seq(Tracks \cup {NoTrack})
    /\ pc \in { "drive_auth", "folder_id", "archive", "download",
                "spotify_auth", "playlist_id", "extract", "read", "diff",
                "remove", "filter", "add_call", "add_chunk", "summary", "done" }
    /\ runs \in 1..MaxRuns


\* =================================================================
\* Properties
\* =================================================================
Chunks(reqs)   == [k \in 1..Len(reqs) |-> reqs[k].chunk]
OkChunks(reqs) == Chunks(SelectSeq(reqs, LAMBDA r : r.ok))

\* sync_playlist_chronologically has been called and has returned
SyncReturned == sync_invoked /\ sync_returned # "none"

\* sync_playlist_chronologically is past its divergence computation
PastDiff == sync_invoked /\ pc \in {"remove", "add_call", "add_chunk", "summary", "done"}

\* the playlist as the sequence of its track identifiers
RemoteTracks == KeepTrackItems(remote)

IsStrictPrefix(a, b) == Len(a) < Len(b) /\ SubSeq(b, 1, Len(a)) = a

\* C1: after a destructive sync whose read was complete and whose remove
\* and add requests all succeeded, the remote playlist equals the target
\* sequence, element by element.
C1_RemoteEqualsTarget ==
    (SyncReturned /\ ~read_failed /\ AllRequestsOk)
        => RemoteTracks = ordered_track_uris_from_chat

\* C2: a destructive sync that follows a fully successful one with the
\* same target ends in the in-sync state without any remove or add request.
C2_SecondRunInSync ==
    (runs > 1 /\ prev_all_ok /\ SyncReturned /\ ~read_failed)
        => (in_sync_logged /\ remove_requests = << >> /\ add_requests = << >>)

\* C3: when the snapshot read from the playlist equals the target, the
\* destructive sync logs the in-sync notice, returns True, issues no remove
\* and no add request and leaves the playlist as it was.
C3_InSyncNoOp ==
    (PastDiff /\ existing_uris = ordered_track_uris_from_chat)
        => /\ in_sync_logged
           /\ sync_returned = "True"
           /\ remove_requests = << >>
           /\ add_requests = << >>
           /\ remote = remote_at_start

C3_Witness ==
    /\ PastDiff /\ pc = "done"
    /\ existing_uris = ordered_track_uris_from_chat
    /\ Len(existing_uris) >= 2
    /\ in_sync_logged

\* the divergence index as the specification defines it: the first
\* pairwise mismatch, else the length of the shorter sequence
SpecDivergence(target, current) ==
    LET overlap == Min(Len(target), Len(current))
        diff    == { k \in 1..overlap : target[k] # current[k] }
    IN  IF diff = {} THEN overlap
        ELSE (CHOOSE k \in diff : \A m \in diff : k <= m) - 1

\* C4: for sequences that are not identical the sync uses d = first
\* mismatch, or the length of the shorter sequence when the overlap agrees,
\* and removes current[d:] and adds target[d:].
C4_DivergenceOfShorter ==
    (PastDiff /\ existing_uris # ordered_track_uris_from_chat)
        => LET d == SpecDivergence(ordered_track_uris_from_chat, existing_uris)
           IN  /\ divergence_index = d
               /\ songs_to_remove = SliceFrom(existing_uris, d)
               /\ songs_to_add = SliceFrom(ordered_track_uris_from_chat, d)

\* C5: when the snapshot is a strict prefix of the target, no remove
\* request is issued and the items requested to be added are exactly
\* target[len(current):], in target order.
C5_PrefixGrowth ==
    (PastDiff /\ IsStrictPrefix(existing_uris, ordered_track_uris_from_chat))
        => /\ remove_requests = << >>
           /\ songs_to_remove = << >>
           /\ songs_to_add = SliceFrom(ordered_track_uris_from_chat, Len(existing_uris))
           /\ pc \in {"summary", "done"}
                 => Flatten(Chunks(add_requests))
                       = SliceFrom(ordered_track_uris_from_chat, Len(existing_uris))

C5_Witness ==
    /\ PastDiff /\ pc = "done"
    /\ IsStrictPrefix(existing_uris, ordered_track_uris_from_chat)
    /\ existing_uris # << >>
    /\ Len(add_requests) = 1
    /\ Len(add_requests[1].chunk) = 2

\* C6: when the first differing index d lies inside both sequences, the
\* remove set is current[d:] and the add set is target[d:]; with d = 0 they
\* are the whole current and the whole target sequence.
C6_MismatchInOverlap ==
    PastDiff =>
        \A d \in 0..Len(ordered_track_uris_from_chat) :
            ( /\ d < Len(ordered_track_uris_from_chat)
              /\ d < Len(existing_uris)
              /\ ordered_track_uris_from_chat[d + 1] # existing_uris[d + 1]
              /\ \A k \in 1..d : ordered_track_uris_from_chat[k] = existing_uris[k] )
            => /\ songs_to_remove = SliceFrom(existing_uris, d)
               /\ songs_to_add = SliceFrom(ordered_track_uris_from_chat, d)

C6_Witness ==
    /\ PastDiff /\ pc = "done"
    /\ Len(existing_uris) = 3
    /\ Len(ordered_track_uris_from_chat) = 3
    /\ existing_uris[1] = ordered_track_uris_from_chat[1]
    /\ existing_uris[2] # ordered_track_uris_from_chat[2]
    /\ Len(songs_to_remove) = 2
    /\ Len(songs_to_add) = 2

\* C7: in add-only mode no remove request is issued and every entry the
\* playlist had at the start of the run keeps its position.
C7_AddOnlyNeverRemoves ==
    ~ENABLE_DESTRUCTIVE_SYNC
        => /\ remove_requests = << >>
           /\ Len(remote) >= Len(remote_at_start)
           /\ SubSeq(remote, 1, Len(remote_at_start)) = remote_at_start

C7_Witness ==
    /\ ~ENABLE_DESTRUCTIVE_SYNC
    /\ pc = "done"
    /\ ordered_track_uris_from_chat # << >>
    /\ Len(ordered_track_uris_from_chat) < Len(remote_at_start)
    /\ add_requests # << >>
    /\ Len(remote) > Len(remote_at_start)

\* C8: in add-only mode no identifier that the playlist already held at
\* the start of the run is part of an add request.
C8_AddOnlyAddsOnlyMissing ==
    ~ENABLE_DESTRUCTIVE_SYNC
        => \A k \in 1..Len(add_requests) :
               Range(add_requests[k].chunk) \cap Range(remote_at_start) = {}

\* C9: a run stopped by a fatal or empty-input condition issues no add
\* and no remove request and leaves the playlist unchanged; with an empty
\* target the sync step is not entered at all.
FatalReasons == { "DriveAuthFailure", "MissingFolderId", "ArchiveNotFound",
                  "ExtractFailed", "SpotifyAuthFailure", "MissingPlaylistId",
                  "NoLinks", "NoValidUris" }

C9_FatalNoMutation ==
    ( \/ final_log_message.reason \in FatalReasons
      \/ (pc \in {"summary", "done"} /\ ordered_track_uris_from_chat = << >>) )
        => /\ add_requests = << >>
           /\ remove_requests = << >>
           /\ remote = remote_at_start
           /\ ~sync_invoked
           /\ existing_uris = << >>
           /\ ~read_failed

C9_Witness ==
    /\ pc = "done"
    /\ final_log_message.reason = "NoValidUris"
    /\ ENABLE_DESTRUCTIVE_SYNC
    /\ Len(chat) = 2
    /\ remote # << >>

\* C10: after add_tracks_to_playlist, every batch was requested, the
\* identifiers of the batches that succeeded are the ones recorded, and the
\* returned count is the number of items handed in minus the items of the
\* failed batches.
C10_FailedBatchIsolation ==
    (add_returned # None /\ add_requests # << >>)
        => /\ Flatten(Chunks(add_requests)) = valid_uris_to_add
           /\ SUCCESSFULLY_ADDED_SONG_URIS_THIS_RUN = Flatten(OkChunks(add_requests))
           /\ add_returned = Len(Flatten(OkChunks(add_requests)))


\* =================================================================
\* Link extraction and resolution, step by step
\* =================================================================
\* A line of the chat is the sequence of the urls written on it, left to
\* right.  A Spotify url carries the track its id segment starts with and
\* the length of that segment; get_track_uri_from_url wants 22 characters.
TrackIdLength == 22

SpotifyUrls ==
    [type : {"spotify"}, id : Tracks, idlen : {TrackIdLength}]
        \cup [type : {"spotify"}, id : {1},
              idlen : {TrackIdLength - 1, TrackIdLength + 1}]

AppleUrls == [type : {"apple"}, id : 1..NumAppleUrls, idlen : {0}]

Urls == SpotifyUrls \cup AppleUrls

ChatLines == SeqsUpTo(Urls, MaxLineLinks)
ChatTexts == SeqsUpTo(ChatLines, MaxLines)

\* re.findall(pattern, line_content) for the pattern of one provider
FindAll(provider, line_content) ==
    SelectSeq(line_content, LAMBDA u : u.type = provider)

\* variant: the seen_urls test is missing
NotSeen_Always(url, seen) == TRUE

\* `url not in seen_urls`
NotSeen(url, seen) == url \notin seen

\* the loop `for url in matches` of extract_all_music_links_from_chat
RECURSIVE AppendNewLinks(_, _, _, _)
AppendNewLinks(acc, matches, provider, ln) ==
    IF matches = << >> THEN acc
    ELSE LET url == Head(matches)
         IN  IF NotSeen(url, acc.seen)
             THEN AppendNewLinks(
                    [links |-> Append(acc.links,
                                 [type |-> provider, url |-> url, line_number |-> ln]),
                     seen  |-> acc.seen \cup {url}],
                    Tail(matches), provider, ln)
             ELSE AppendNewLinks(acc, Tail(matches), provider, ln)

\* body of the loop over the lines: Spotify matches, then Apple matches
ExtractFromLine(acc, line_content, ln) ==
    AppendNewLinks(
        AppendNewLinks(acc, FindAll("spotify", line_content), "spotify", ln),
        FindAll("apple", line_content), "apple", ln)

\* get_track_uri_from_url: the first 22 characters of the id segment
get_track_uri_from_url(url) ==
    IF url.idlen >= TrackIdLength THEN url.id ELSE Abstain

\* variant: the result of the conversion is appended without the test
AppendResolved_Unchecked(uris, uri) == Append(uris, uri)

\* `if uri: ordered_track_uris_from_chat.append(uri)`
AppendResolved(uris, uri) == IF uri # Abstain THEN Append(uris, uri) ELSE uris

InitLinks ==
    /\ text_content \in ChatTexts
    /\ line_number = 0
    /\ all_links = << >>
    /\ seen_urls = {}
    /\ outcomes = << >>
    /\ NoSearch
    /\ NoDetails
    /\ pc = "extract_line"
    /\ ordered_track_uris_from_chat = << >>
    /\ remote = << >>
    /\ chat = << >>
    /\ ENABLE_DESTRUCTIVE_SYNC = FALSE
    /\ SUCCESSFULLY_ADDED_SONG_URIS_THIS_RUN = << >>
    /\ sp = TRUE
    /\ existing_uris = << >>
    /\ offset = 0
    /\ divergence_index = None
    /\ songs_to_remove = << >>
    /\ songs_to_add = << >>
    /\ to_add = << >>
    /\ valid_uris_to_add = << >>
    /\ i = 0
    /\ final_log_message = Msg("BeforeStart", 0)
    /\ runs = 1
    /\ remote_at_start = << >>
    /\ read_failed = FALSE
    /\ sync_invoked = FALSE
    /\ sync_returned = "none"
    /\ in_sync_logged = FALSE
    /\ remove_requests = << >>
    /\ add_requests = << >>
    /\ add_returned = None
    /\ prev_all_ok = FALSE
    /\ emitted = << >>
    /\ blocking_reason = "none"

restOfRun == << remote, inputVars, SUCCESSFULLY_ADDED_SONG_URIS_THIS_RUN, sp,
                readVars, diffVars, valid_uris_to_add, i, final_log_message,
                sync_invoked, runVars, read_failed, sync_returned,
                in_sync_logged, reqVars, emitted, blocking_reason,
                searchVars, detailVars >>

\* extract_all_music_links_from_chat: one line of text_content.splitlines()
ExtractLine ==
    /\ pc = "extract_line"
    /\ line_number < Len(text_content)
    /\ LET ln  == line_number + 1
           acc == ExtractFromLine([links |-> all_links, seen |-> seen_urls],
                                  text_content[ln], ln)
       IN  /\ line_number' = ln
           /\ all_links' = acc.links
           /\ seen_urls' = acc.seen
    /\ UNCHANGED << pc, text_content, outcomes, ordered_track_uris_from_chat,
                    restOfRun >>

\* the extractor returns; `if not all_links` ends the run's link handling
ExtractReturn ==
    /\ pc = "extract_line"
    /\ line_number = Len(text_content)
    /\ pc' = IF all_links = << >> THEN "no_links" ELSE "resolve_link"
    /\ UNCHANGED << linkVars, ordered_track_uris_from_chat, restOfRun >>

\* one iteration of `for link in all_links`: a Spotify url is converted;
\* an Apple Music url goes through the page scrape and the search, which
\* give a track uri or nothing.  No outcome leaves the loop.
ResolveLink ==
    /\ pc = "resolve_link"
    /\ LET link == all_links[Len(outcomes) + 1]
       IN  \E uri \in IF link.type = "spotify"
                     THEN {get_track_uri_from_url(link.url)}
                     ELSE Tracks \cup {Abstain} :
              /\ outcomes' = Append(outcomes, uri)
              /\ ordered_track_uris_from_chat'
                    = AppendResolved(ordered_track_uris_from_chat, uri)
    /\ pc' = IF Len(outcomes) + 1 = Len(all_links) THEN "resolved" ELSE "resolve_link"
    /\ UNCHANGED << text_content, line_number, all_links, seen_urls, restOfRun >>

NextLinks ==
    \/ ExtractLine
    \/ ExtractReturn
    \/ ResolveLink

SpecLinks == InitLinks /\ [][NextLinks]_vars

\* --------------------------------------------------------------- C18-C20
LinkUrls(links) == [k \in 1..Len(links) |-> links[k].url]

\* all urls of the first n lines, in textual order
RECURSIVE TextUrls(_, _)
TextUrls(text, n) ==
    IF n = 0 THEN << >> ELSE TextUrls(text, n - 1) \o text[n]

\* a sequence without the later occurrences of its elements
RECURSIVE FirstOccurrences(_)
FirstOccurrences(q) ==
    IF q = << >> THEN << >>
    ELSE LET front == FirstOccurrences(SubSeq(q, 1, Len(q) - 1))
             last  == q[Len(q)]
         IN  IF last \in Range(front) THEN front ELSE Append(front, last)

FirstLineOf(url, text) ==
    CHOOSE n \in 1..Len(text) :
        /\ url \in Range(text[n])
        /\ \A m \in 1..(n - 1) : url \notin Range(text[m])

C19_TextualOrder ==
    pc # "extract_line"
        => LinkUrls(all_links)
              = FirstOccurrences(TextUrls(text_content, Len(text_content)))

\* C20: the target is the sequence of the identifiers of the links that
\* resolved, in the order of the links; a link that does not resolve adds
\* nothing and the loop goes on to the last link.
C20_TargetIsResolvedLinks ==
    /\ Len(outcomes) <= Len(all_links)
    /\ ordered_track_uris_from_chat = SelectSeq(outcomes, LAMBDA r : r # Abstain)
    /\ \A k \in 1..Len(outcomes) :
          (all_links[k].type = "spotify" /\ all_links[k].url.idlen = TrackIdLength)
              => outcomes[k] = all_links[k].url.id
    /\ pc \in {"extract_line", "no_links"} => outcomes = << >>
    /\ pc = "resolve_link" => Len(outcomes) < Len(all_links)
    /\ pc = "resolved" => Len(outcomes) = Len(all_links)

C20_Witness ==
    /\ pc = "resolved"
    /\ Len(all_links) = 3
    /\ all_links[2].type = "apple"
    /\ outcomes[1] # Abstain
    /\ outcomes[2] = Abstain
    /\ outcomes[3] # Abstain
    /\ outcomes[1] # outcomes[3]
    /\ ordered_track_uris_from_chat = << outcomes[1], outcomes[3] >>

\* ---------------------------------------------------------------
Ceil(n, b) == (n + b - 1) \div b

SummaryEntries == SelectSeq(emitted, LAMBDA e : e.kind = "summary")
DiagEntries    == SelectSeq(emitted, LAMBDA e : e.kind = "diag")
LogFile        == SelectSeq(emitted, LAMBDA e : e.file)

SomeRemoveFailed == \E k \in 1..Len(remove_requests) : ~remove_requests[k].ok

AddedThisRun == Flatten(OkChunks(add_requests))

RECURSIVE IsSubseq(_, _)
IsSubseq(a, b) ==
    IF a = << >> THEN TRUE
    ELSE IF b = << >> THEN FALSE
    ELSE IF Head(a) = Head(b) THEN IsSubseq(Tail(a), Tail(b))
    ELSE IsSubseq(a, Tail(b))

\* C11 (as stated): when a remove request fails, the remaining removal
\* batches are still requested, the additions are still attempted and the
\* run still produces its summary.
C11_RemoveFailureNonFatal ==
    (pc = "done" /\ SomeRemoveFailed)
        => /\ Flatten(Chunks(remove_requests)) = songs_to_remove
           /\ songs_to_add # << >> => add_requests # << >>
           /\ Len(SummaryEntries) = 1

\* C11 (amended): a failed remove request ends the sync: no further
\* removal batch and no addition is requested, the sync returns False, and
\* the run still goes on to its summary.
C11_RemoveFailureAborts ==
    \A k \in 1..Len(remove_requests) :
        ~remove_requests[k].ok
            => /\ k = Len(remove_requests)
               /\ add_requests = << >>
               /\ sync_returned = "False"
               /\ pc \in {"summary", "done"}
               /\ pc = "done" => Len(SummaryEntries) = 1

C11_Witness ==
    /\ pc = "done"
    /\ Len(songs_to_remove) = 3
    /\ Len(remove_requests) = 1
    /\ ~remove_requests[1].ok
    /\ songs_to_add # << >>
    /\ Len(SummaryEntries) = 1

\* C12 (as stated): N items handed to the mutator give exactly
\* ceil(N/B) requests, for removals as for additions.
C12_AlwaysCeilRequests ==
    pc = "done"
        => /\ Len(remove_requests) = Ceil(Len(songs_to_remove), ChunkSize)
           /\ Len(add_requests) = Ceil(Len(valid_uris_to_add), ChunkSize)

\* C12 (amended): request k carries items (k-1)B .. kB-1 of the list handed
\* in, between 1 and B of them, and no batch is sent twice; additions make
\* exactly ceil(N/B) requests whose concatenation is the list; removals
\* make ceil(N/B) requests unless one fails, which ends them.
C12_BatchBoundary ==
    /\ \A k \in 1..Len(add_requests) :
          /\ add_requests[k].chunk
                = Slice(valid_uris_to_add, (k - 1) * ChunkSize, k * ChunkSize)
          /\ Len(add_requests[k].chunk) \in 1..ChunkSize
    /\ \A k \in 1..Len(remove_requests) :
          /\ remove_requests[k].chunk
                = Slice(songs_to_remove, (k - 1) * ChunkSize, k * ChunkSize)
          /\ Len(remove_requests[k].chunk) \in 1..ChunkSize
          /\ ~remove_requests[k].ok => k = Len(remove_requests)
    /\ add_returned # None
          => /\ Len(add_requests) = Ceil(Len(valid_uris_to_add), ChunkSize)
             /\ Flatten(Chunks(add_requests)) = valid_uris_to_add
    /\ (sync_invoked /\ pc \in {"add_call", "add_chunk", "summary", "done"}
            /\ ~SomeRemoveFailed)
          => Len(remove_requests) = Ceil(Len(songs_to_remove), ChunkSize)

C12_Witness ==
    /\ pc = "done"
    /\ Len(valid_uris_to_add) = 3
    /\ Len(add_requests) = 2
    /\ ~add_requests[1].ok
    /\ add_requests[2].ok
    /\ Len(remove_requests) = 1

\* C13: what a run appends stands at the end of the playlist in the order
\* of the add set: the batches are sent in increasing index order, the
\* items of the successful ones are an order-preserving part of the add
\* set, and no remove request follows an add request of the same run.
C13_AdditionOrder ==
    /\ [] ( /\ Len(remote) >= Len(AddedThisRun)
            /\ SubSeq(remote, Len(remote) - Len(AddedThisRun) + 1, Len(remote))
                  = AddedThisRun
            /\ IsSubseq(AddedThisRun, valid_uris_to_add)
            /\ Flatten(Chunks(add_requests))
                  = SubSeq(valid_uris_to_add, 1, Len(Flatten(Chunks(add_requests))))
            /\ ~sync_invoked => remote = remote_at_start \o AddedThisRun )
    /\ [][ (add_requests # << >> /\ runs' = runs)
              => remove_requests' = remove_requests ]_vars

C13_Witness ==
    /\ pc = "done"
    /\ sync_invoked
    /\ remove_requests # << >>
    /\ Len(add_requests) = 2
    /\ add_requests[1].ok
    /\ add_requests[2].ok
    /\ Len(remote) > Len(AddedThisRun)

\* C14: the summary counts as added exactly the identifiers of the add
\* requests of this run that succeeded: none that was not added, and every
\* successful add batch is counted.
C14_SummaryNeverOverClaims ==
    (pc = "done" /\ Len(SummaryEntries) = 1)
        => LET e == SummaryEntries[1]
           IN  /\ e.reason \in {"Added", "AddedNoClient"}
                     => /\ e.count = Len(AddedThisRun)
                        /\ SUCCESSFULLY_ADDED_SONG_URIS_THIS_RUN = AddedThisRun
               /\ AddedThisRun # << >>
                     => e.reason \in {"Added", "AddedNoClient"}

\* C15: a run that adds nothing emits one summary sentence and that
\* sentence names the first blocking condition of the run.
C15_SummaryNamesBlockingReason ==
    (pc = "done" /\ AddedThisRun = << >> /\ blocking_reason # "none")
        => /\ Len(SummaryEntries) = 1
           /\ SummaryEntries[1].reason = blocking_reason

\* C16 (as stated): a run emits one summary line and the log file receives
\* exactly that line: no diagnostic message, and the summary also when
\* nothing was added.
C16_DurableLogOnlySummary ==
    pc = "done"
        => /\ Len(SummaryEntries) = 1
           /\ LogFile = SummaryEntries

\* C16 (amended): a run emits one summary line; it is written to the log
\* file only when the module-level list of added songs is not empty or the
\* run stopped at the Drive authentication or the Drive folder id, and is
\* printed to the console only otherwise; every diagnostic message passed
\* to log_message is written to the log file as well.
C16_LogFileContents ==
    /\ \A k \in 1..Len(emitted) :
          emitted[k].kind = "diag" => emitted[k].file
    /\ Len(SummaryEntries) <= 1
    /\ pc = "done"
          => /\ Len(SummaryEntries) = 1
             /\ emitted[Len(emitted)].kind = "summary"
             /\ SummaryEntries[1].file
                   <=> SummaryEntries[1].reason
                          \in {"DriveAuthFailure", "MissingFolderId",
                               "Added", "AddedNoClient"}
             /\ SummaryEntries[1].reason \in {"Added", "AddedNoClient"}
                   <=> ( /\ SUCCESSFULLY_ADDED_SONG_URIS_THIS_RUN # << >>
                         /\ blocking_reason
                               \notin {"DriveAuthFailure", "MissingFolderId"} )

C16_Witness ==
    /\ pc = "done"
    /\ read_failed
    /\ in_sync_logged
    /\ Len(DiagEntries) = 3
    /\ Len(LogFile) = 3
    /\ ~SummaryEntries[1].file

\* C17: the module-level list of added identifiers is empty when a run
\* starts, so the count returned by add_tracks_to_playlist is the number of
\* identifiers added in this run.
C17_NoLeakBetweenRuns ==
    /\ pc = "drive_auth" => SUCCESSFULLY_ADDED_SONG_URIS_THIS_RUN = << >>
    /\ add_returned # None => add_returned = Len(AddedThisRun)

\* =================================================================
\* search_spotify_for_apple_music_track
\* =================================================================
\* A name is a short string over letters of both cases, a hyphen and an
\* underscore.
Chars == {"a", "b", "A", "-", "_"}
Names == SeqsUpTo(Chars, MaxNameLen)
ArtistNames == { <<"a">>, <<"b">>, <<"A">>, <<"a", "b">> }

\* str.lower()
Lower(str) == [k \in 1..Len(str) |-> IF str[k] = "A" THEN "a" ELSE str[k]]

\* normalize: re.sub(r"[^\w\s]", "", s) drops the hyphen, the replace
\* chain turns the underscore into a space, then lower()
normalize(str) ==
    LET kept == SelectSeq(str, LAMBDA c : c # "-")
    IN  Lower([k \in 1..Len(kept) |-> IF kept[k] = "_" THEN " " ELSE kept[k]])

\* Python `a in b` for strings
Contains(a, b) ==
    \E k \in 1..(Len(b) - Len(a) + 1) : SubSeq(b, k, k + Len(a) - 1) = a

\* `if artist_name` (None and "" are falsy)
HasArtist(an) == an # NoName /\ an # << >>

track_name_match(tn, matched) ==
    LET norm_input_track   == normalize(Lower(tn))
        norm_matched_track == normalize(Lower(matched))
    IN  \/ norm_input_track = norm_matched_track
        \/ Contains(norm_input_track, norm_matched_track)
        \/ Contains(norm_matched_track, norm_input_track)

artist_match(an, matched_artists) ==
    IF HasArtist(an)
    THEN LET norm_input_artist == normalize(Lower(an))
         IN  \E k \in 1..Len(matched_artists) :
                 LET a == Lower(matched_artists[k])
                 IN  \/ Contains(norm_input_artist, normalize(a))
                     \/ Contains(normalize(a), norm_input_artist)
    ELSE TRUE

\* the confidence threshold: uri of the best match, or None
ConfidenceResult(tn, an, match) ==
    IF track_name_match(tn, match.name) /\ artist_match(an, match.artists)
    THEN match.uri
    ELSE IF track_name_match(tn, match.name) /\ ~HasArtist(an)
    THEN IF normalize(Lower(tn)) = normalize(Lower(match.name))
         THEN match.uri
         ELSE None
    ELSE None

\* what sp.search can give: an exception, no items, or items whose first
\* one is the best match
SearchHits ==
    [kind : {"hit"}, name : Names, artists : SeqsUpTo(ArtistNames, MaxArtists),
     uri : Tracks]

SearchResponses(hits) == {[kind |-> "error"], [kind |-> "empty"]} \cup hits

\* the variables of the run when no run is modelled
RunIdle ==
    /\ remote = << >>
    /\ chat = << >>
    /\ ENABLE_DESTRUCTIVE_SYNC = FALSE
    /\ SUCCESSFULLY_ADDED_SONG_URIS_THIS_RUN = << >>
    /\ sp = TRUE
    /\ existing_uris = << >>
    /\ offset = 0
    /\ divergence_index = None
    /\ songs_to_remove = << >>
    /\ songs_to_add = << >>
    /\ to_add = << >>
    /\ valid_uris_to_add = << >>
    /\ i = 0
    /\ final_log_message = Msg("BeforeStart", 0)
    /\ runs = 1
    /\ remote_at_start = << >>
    /\ read_failed = FALSE
    /\ sync_invoked = FALSE
    /\ sync_returned = "none"
    /\ in_sync_logged = FALSE
    /\ remove_requests = << >>
    /\ add_requests = << >>
    /\ add_returned = None
    /\ prev_all_ok = FALSE
    /\ emitted = << >>
    /\ blocking_reason = "none"

InitSearch ==
    /\ track_name \in Names \cup {NoName}
    /\ artist_name \in ArtistNames \cup {NoName}
    /\ best_match = [kind |-> "none"]
    /\ search_outcome = "none"
    /\ spotify_uri = None
    /\ pc = "search"
    /\ text_content = << >>
    /\ line_number = 0
    /\ all_links = << >>
    /\ seen_urls = {}
    /\ outcomes = << >>
    /\ ordered_track_uris_from_chat = << >>
    /\ NoDetails
    /\ RunIdle

\* the whole function: the guard on the track name, the quoted search,
\* the looser search when the first gives no items, the evaluation of the
\* first item; any exception gives None
SearchSpotifyForAppleMusicTrack ==
    /\ pc = "search"
    /\ pc' = "searched"
    /\ IF track_name = NoName \/ track_name = << >>
       THEN /\ search_outcome' = "no_track_name"
            /\ spotify_uri' = None
            /\ UNCHANGED best_match
       ELSE \E first \in SearchResponses(SearchHits) :
            \E fallback \in SearchResponses(IF first.kind = "empty"
                                            THEN SearchHits ELSE {}) :
               LET tracks == IF first.kind = "empty" THEN fallback ELSE first
               IN  IF tracks.kind = "error"
                   THEN /\ search_outcome' = "error"
                        /\ spotify_uri' = None
                        /\ UNCHANGED best_match
                   ELSE IF tracks.kind = "empty"
                   THEN /\ search_outcome' = "no_match"
                        /\ spotify_uri' = None
                        /\ UNCHANGED best_match
                   ELSE /\ search_outcome' = "evaluated"
                        /\ best_match' = tracks
                        /\ spotify_uri' = ConfidenceResult(track_name, artist_name, tracks)
    /\ UNCHANGED << track_name, artist_name, text_content, line_number,
                    all_links, seen_urls, outcomes,
                    ordered_track_uris_from_chat, remote, inputVars,
                    SUCCESSFULLY_ADDED_SONG_URIS_THIS_RUN, sp, readVars,
                    diffVars, valid_uris_to_add, i, final_log_message,
                    sync_invoked, runVars, read_failed, sync_returned,
                    in_sync_logged, reqVars, emitted, blocking_reason,
                    detailVars >>

NextSearch == SearchSpotifyForAppleMusicTrack

SpecSearch == InitSearch /\ [][NextSearch]_vars

\* =================================================================
\* get_track_details_for_logging
\* =================================================================
\* An entry of the list is the formatted name of a track ("details"), or
\* a placeholder that prints a uri ("unknown", "error").
DetailEntry(kind, uri) == [kind |-> kind, uri |-> uri]

\* tracks_info['tracks'] for a chunk: per id the track data or null
TracksInfos(chunk_uris) == [1..Len(chunk_uris) -> {"data", "null"}]

\* tracks_info['tracks'].index(track_data) for a null entry: the position,
\* from 0, of the first null of the response
IndexOfNull(tracks) ==
    (CHOOSE k \in 1..Len(tracks) :
        /\ tracks[k] = "null"
        /\ \A m \in 1..(k - 1) : tracks[m] # "null") - 1

\* the loop over tracks_info['tracks'] for one chunk
EntriesOfChunk(chunk_uris, tracks) ==
    [k \in 1..Len(tracks) |->
        IF tracks[k] = "data"
        THEN DetailEntry("details", chunk_uris[k])
        ELSE LET failed_uri_index == IndexOfNull(tracks)
             IN  DetailEntry("unknown", chunk_uris[failed_uri_index + 1])]

\* the except branch: one placeholder per uri of the chunk
ErrorEntries(chunk_uris) ==
    [k \in 1..Len(chunk_uris) |-> DetailEntry("error", chunk_uris[k])]

InitDetails ==
    /\ SUCCESSFULLY_ADDED_SONG_URIS_THIS_RUN \in SeqsUpTo(Tracks, MaxLinks)
    /\ sp = TRUE
    /\ pc = "details"
    /\ i = 0
    /\ NoDetails
    /\ NoSearch
    /\ text_content = << >>
    /\ line_number = 0
    /\ all_links = << >>
    /\ seen_urls = {}
    /\ outcomes = << >>
    /\ ordered_track_uris_from_chat = << >>
    /\ remote = << >>
    /\ chat = << >>
    /\ ENABLE_DESTRUCTIVE_SYNC = FALSE
    /\ existing_uris = << >>
    /\ offset = 0
    /\ divergence_index = None
    /\ songs_to_remove = << >>
    /\ songs_to_add = << >>
    /\ to_add = << >>
    /\ valid_uris_to_add = << >>
    /\ final_log_message = Msg("BeforeStart", 0)
    /\ runs = 1
    /\ remote_at_start = << >>
    /\ read_failed = FALSE
    /\ sync_invoked = FALSE
    /\ sync_returned = "none"
    /\ in_sync_logged = FALSE
    /\ remove_requests = << >>
    /\ add_requests = << >>
    /\ add_returned = None
    /\ prev_all_ok = FALSE
    /\ emitted = << >>
    /\ blocking_reason = "none"

detailsFrame == << remote, inputVars, SUCCESSFULLY_ADDED_SONG_URIS_THIS_RUN, sp,
                   ordered_track_uris_from_chat, readVars, diffVars,
                   valid_uris_to_add, final_log_message, sync_invoked,
                   runVars, read_failed, sync_returned, in_sync_logged,
                   reqVars, emitted, blocking_reason, text_content,
                   line_number, all_links, seen_urls, outcomes, searchVars >>

\* `if not track_uris: return []`
DetailsOfNothing ==
    /\ pc = "details"
    /\ SUCCESSFULLY_ADDED_SONG_URIS_THIS_RUN = << >>
    /\ pc' = "details_done"
    /\ UNCHANGED << i, detailVars, detailsFrame >>

\* one iteration of the loop over the chunks: one sp.tracks request
DetailsChunk ==
    /\ pc = "details"
    /\ i < Len(SUCCESSFULLY_ADDED_SONG_URIS_THIS_RUN)
    /\ LET chunk_uris == Slice(SUCCESSFULLY_ADDED_SONG_URIS_THIS_RUN, i,
                               i + DetailsChunkSize)
       IN  \E ok \in BOOLEAN :
              IF ok
              THEN \E tracks \in TracksInfos(chunk_uris) :
                      /\ track_details_list'
                            = track_details_list \o EntriesOfChunk(chunk_uris, tracks)
                      /\ lookups' = lookups \o tracks
              ELSE /\ track_details_list'
                         = track_details_list \o ErrorEntries(chunk_uris)
                   /\ lookups' = lookups \o [k \in 1..Len(chunk_uris) |-> "error"]
    /\ i' = i + DetailsChunkSize
    /\ pc' = IF i + DetailsChunkSize < Len(SUCCESSFULLY_ADDED_SONG_URIS_THIS_RUN)
             THEN "details" ELSE "details_done"
    /\ UNCHANGED detailsFrame

NextDetails ==
    \/ DetailsOfNothing
    \/ DetailsChunk

SpecDetails == InitDetails /\ [][NextDetails]_vars

\* C21: a Spotify url resolves to an identifier only when its id segment
\* has exactly 22 characters, and then to that segment; with any other
\* length, shorter or longer, the conversion gives nothing.
C21_StrictNativeResolution ==
    \A k \in 1..Len(outcomes) :
        all_links[k].type = "spotify"
            => /\ outcomes[k] # Abstain <=> all_links[k].url.idlen = TrackIdLength
               /\ outcomes[k] # Abstain => outcomes[k] = all_links[k].url.id

\* C22: the best match is accepted only if the normalized titles are
\* equal or one contains the other and, with an artist name, some artist
\* of the match overlaps it, and, without an artist name, the normalized
\* titles are equal; otherwise, and on a search error, nothing is returned.
C22_AcceptanceRule ==
    search_outcome # "none"
        => /\ spotify_uri # None
                <=> /\ search_outcome = "evaluated"
                    /\ track_name_match(track_name, best_match.name)
                    /\ HasArtist(artist_name)
                          => artist_match(artist_name, best_match.artists)
                    /\ ~HasArtist(artist_name)
                          => normalize(Lower(track_name))
                                = normalize(Lower(best_match.name))
           /\ spotify_uri # None => spotify_uri = best_match.uri

\* C23: the target sequence holds no identifier twice, also when two
\* different urls of the text resolve to the same track.
C23_TargetHasNoDuplicates ==
    \A j, k \in 1..Len(ordered_track_uris_from_chat) :
        ordered_track_uris_from_chat[j] = ordered_track_uris_from_chat[k] => j = k

\* the well-formed track identifiers of the first n playlist entries
WellFormedOf(pl, n) == SelectSeq(Slice(pl, 0, n), LAMBDA e : e \in Tracks)

\* C24: the reader asks for the pages in increasing offset while a next
\* page is reported; what it holds is the concatenation, in order, of the
\* track identifiers of the pages fetched, entries without a track being
\* dropped; a failed page request is the last one and the reader returns
\* what it holds (the run goes on with it).
C24_ReaderPagination ==
    /\ [] ( /\ existing_uris = WellFormedOf(remote_at_start, offset + ChunkSize)
               \/ existing_uris = WellFormedOf(remote_at_start, offset)
            /\ pc = "read" => existing_uris = WellFormedOf(remote_at_start, offset)
            /\ (pc \in {"diff", "filter"} /\ read_failed)
                  => existing_uris = WellFormedOf(remote_at_start, offset)
            /\ (pc \in {"diff", "filter"} /\ ~read_failed)
                  => /\ existing_uris = WellFormedOf(remote_at_start, Len(remote_at_start))
                     /\ offset + ChunkSize >= Len(remote_at_start)
            /\ offset % ChunkSize = 0 )
    /\ [][ /\ (pc = "read" /\ pc' = "read")
                => /\ offset' = offset + ChunkSize
                   /\ offset' < Len(remote)
                   /\ ~read_failed'
           /\ (pc = "read" /\ read_failed')
                => /\ pc' \in {"diff", "filter"}
                   /\ existing_uris' = existing_uris
           /\ (pc # "read" /\ runs' = runs)
                => << existing_uris, offset, read_failed >>'
                      = << existing_uris, offset, read_failed >> ]_vars

C24_Witness ==
    /\ pc \in {"diff", "filter"}
    /\ read_failed
    /\ offset = ChunkSize
    /\ Len(remote_at_start) = 3
    /\ remote_at_start[1] = NoTrack
    /\ Len(existing_uris) = 1

\* C25: when the read was cut off by an error, a destructive-sync run
\* adds no identifier that stands in the part of the playlist it did not
\* read.
C25_ShortReadNotTrusted ==
    (sync_invoked /\ read_failed)
        => Range(AddedThisRun) \cap Range(SliceFrom(remote_at_start, offset)) = {}

\* C26: sync_playlist_chronologically returns True only when no remove
\* request and no add request of the run failed.
C26_TrueOnlyWithoutError ==
    (sync_invoked /\ sync_returned = "True") => AllRequestsOk

\* C27: the list of display names has one entry per added identifier, in
\* the same order; an entry whose lookup gave no data, or whose batch
\* failed, is a placeholder that prints the identifier of that entry.
C27_OneEntryPerIdentifier ==
    /\ Len(track_details_list) = Len(lookups)
    /\ \A k \in 1..Len(track_details_list) :
          /\ track_details_list[k].uri = SUCCESSFULLY_ADDED_SONG_URIS_THIS_RUN[k]
          /\ track_details_list[k].kind = "details" <=> lookups[k] = "data"
          /\ track_details_list[k].kind = "unknown" <=> lookups[k] = "null"
          /\ track_details_list[k].kind = "error" <=> lookups[k] = "error"
    /\ pc = "details_done"
          => Len(track_details_list) = Len(SUCCESSFULLY_ADDED_SONG_URIS_THIS_RUN)

\* C28: a destructive sync leaves the playlist before the divergence
\* index as it was: the first d track entries are the same after the
\* removal step as in the snapshot, duplicates or not.
C28_PrefixUntouched ==
    (sync_invoked /\ divergence_index # None)
        => /\ Len(RemoteTracks) >= divergence_index
           /\ SubSeq(RemoteTracks, 1, divergence_index)
                 = SubSeq(existing_uris, 1, divergence_index)

NoIdentifierTwice(pl) ==
    \A j, k \in 1..Len(pl) : (pl[j] = pl[k] /\ pl[j] \in Tracks) => j = k

\* the premises of C29 for the run in progress
RestrictedRun ==
    /\ SyncReturned
    /\ ~read_failed
    /\ AllRequestsOk
    /\ NoIdentifierTwice(remote_at_start)
    /\ ~IsStrictPrefix(ordered_track_uris_from_chat, KeepTrackItems(remote_at_start))

\* C29: when the playlist holds no identifier twice, the target is not a
\* strict prefix of it, the read is complete and every request succeeds,
\* the playlist equals the target after one destructive sync; the next run
\* then starts from a playlist equal to the same target, and such a run
\* ends in the in-sync state without a request and without a change.
C29_RestrictedConvergence ==
    /\ [] ( /\ RestrictedRun => RemoteTracks = ordered_track_uris_from_chat
            /\ ( /\ runs > 1
                 /\ prev_all_ok
                 /\ KeepTrackItems(remote_at_start) = ResolveLinks(chat)
                 /\ SyncReturned
                 /\ ~read_failed )
                  => /\ in_sync_logged
                     /\ sync_returned = "True"
                     /\ remove_requests = << >>
                     /\ add_requests = << >>
                     /\ remote = remote_at_start )
    /\ [][ (runs' = runs + 1 /\ RestrictedRun)
              => /\ prev_all_ok'
                 /\ KeepTrackItems(remote_at_start') = ResolveLinks(chat') ]_vars

C29_Witness ==
    /\ pc = "done"
    /\ RestrictedRun
    /\ remove_requests # << >>
    /\ add_requests # << >>
    /\ Len(remote_at_start) >= 2
    /\ Len(ordered_track_uris_from_chat) = 3
    /\ RemoteTracks = ordered_track_uris_from_chat

====
